---- MODULE Spec2Model ----
(***************************************************************************)
(* Model of import_with_python.py: the FoodData Central importer.  One     *)
(* process of main() prompts, opens the driver, runs run_import and        *)
(* closes; the graph store outlives the process, so a later process finds  *)
(* what earlier ones committed.  Every session.run is one step: an         *)
(* auto-commit transaction that either takes effect as a whole or raises   *)
(* and leaves the store as it was.                                         *)
(***************************************************************************)
EXTENDS Integers, Sequences, FiniteSets, TLC

VARIABLES
    foods,          \* data['FoundationFoods'] of JSON_FILE
    nodes,          \* store: the nodes, a node's identity is its index
    rels,           \* store: the relationships
    constraints,    \* store: names of the constraints and indexes present
    pc,             \* position of the current process in main / run_import
    i,              \* loop variable of the phase being executed
    nutrient_list,  \* list(nutrients.values()) of create_nutrients
    response,       \* what input() returned
    driver,         \* "none" | "open" | "closed"
    error,          \* the exception that left run_import, "none" if none
    stmts,          \* number of session.run calls made by this process
    console,        \* notable lines printed by this process
    counts,         \* the counts read by verify_import
    failedAt,       \* phase whose statement raised in this process, "none" if none
    start,          \* what the store held when this process began
    prevFailedAt,   \* failedAt of the last process before this one that ran run_import
    blist, bsize, bi, batches   \* the batching loop on its own

vars == <<foods, nodes, rels, constraints, pc, i, nutrient_list, response,
          driver, error, stmts, console, counts, failedAt, start, prevFailedAt,
          blist, bsize, bi, batches>>

storeVars == <<nodes, rels, constraints>>
bvars == <<blist, bsize, bi, batches>>

-----------------------------------------------------------------------------
(* Bounds and program constants *)

MaxFoods == 2
MaxEntries == 3
MaxBatches == 2

FOOD_BATCH_SIZE == 100
NUTRIENT_BATCH_SIZE == 1000

Min(a, b) == IF a < b THEN a ELSE b

-----------------------------------------------------------------------------
(* Strings as sequences of characters, so that lower() is computed *)

UpperChars == <<"A","B","C","D","E","F","G","H","I","J","K","L","M",
                "N","O","P","Q","R","S","T","U","V","W","X","Y","Z">>
LowerChars == <<"a","b","c","d","e","f","g","h","i","j","k","l","m",
                "n","o","p","q","r","s","t","u","v","w","x","y","z">>

LowerChar(c) ==
    IF \E k \in DOMAIN UpperChars : UpperChars[k] = c
    THEN LowerChars[CHOOSE k \in DOMAIN UpperChars : UpperChars[k] = c]
    ELSE c

lower(s) == [k \in DOMAIN s |-> LowerChar(s[k])]

\* response.lower() not in ['yes', 'y'] is the cancelling branch
AcceptsAnyY(r) == Len(r) > 0 /\ lower(r)[1] = "y"
Accepts(r) == lower(r) \in {<<"y","e","s">>, <<"y">>}

Responses ==
    { <<"Y","e","S">>, <<"y">>,
      <<"n","o">>, <<>>, <<"y","e">>, <<"y","e","s"," ">>, <<"y","y">>,
      <<"N">>, <<"y","e","a","h">> }

-----------------------------------------------------------------------------
(* Input records.  A foodNutrients entry carries the nutrient's id and its  *)
(* descriptive fields; the descriptive fields are tagged with the place of  *)
(* the entry in the file, so that two entries of one id differ and the node *)
(* shows which of them it was made from.                                    *)

NutIds == {1, 2}
CatIds == {1, 2}
FdcIds == 1..MaxFoods

Nutrient(id, f, e) ==
    [id |-> id, name |-> <<"name", f, e>>, number |-> <<"number", f, e>>,
     unitName |-> <<"unit", f, e>>, rank |-> <<"rank", f, e>>]

Category(id) == [id |-> id, code |-> <<"code", id>>, description |-> <<"cat", id>>]

\* a food record whose foodNutrients entries have the nutrient ids nids
Food(f, fdcId, cat, nids) ==
    [fdcId |-> fdcId, foodCategory |-> Category(cat),
     foodNutrients |-> [e \in DOMAIN nids |-> [nutrient |-> Nutrient(nids[e], f, e)]]]

SeqsUpTo(S, n) == UNION {[1..m -> S] : m \in 0..n}

RECURSIVE SumLens(_, _)
SumLens(s, k) == IF k = 0 THEN 0 ELSE Len(s[k]) + SumLens(s, k - 1)

\* the nutrient ids of every food's entries, at most MaxEntries entries in all
NidLists(n) ==
    {s \in [1..n -> SeqsUpTo(NutIds, MaxEntries)] : SumLens(s, n) <= MaxEntries}

\* identifiers are only ever compared for equality, so an input stands for all
\* its renamings: the k-th new identifier in file order is k
RECURSIVE InOrderOfFirstUse(_, _, _)
InOrderOfFirstUse(s, k, seen) ==
    \/ k > Len(s)
    \/ /\ s[k] <= seen + 1
       /\ InOrderOfFirstUse(s, k + 1, IF s[k] > seen THEN s[k] ELSE seen)

RECURSIVE Flatten(_, _)
Flatten(s, k) == IF k > Len(s) THEN <<>> ELSE s[k] \o Flatten(s, k + 1)

SmallInputs ==
    UNION {
        { [f \in 1..n |-> Food(f, ids[f], cats[f], nl[f])] :
            ids \in {s \in [1..n -> FdcIds] : InOrderOfFirstUse(s, 1, 0)},
            cats \in {s \in [1..n -> CatIds] : InOrderOfFirstUse(s, 1, 0)},
            nl \in {s \in NidLists(n) : InOrderOfFirstUse(Flatten(s, 1), 1, 0)} }
        : n \in 0..MaxFoods }

\* one food more than a batch holds; in the second the last food repeats fdcId 1
LongInputs ==
    { [f \in 1..(FOOD_BATCH_SIZE + 1) |->
          Food(f, IF f = FOOD_BATCH_SIZE + 1 /\ dup THEN 1 ELSE f, 1,
               IF f = 1 THEN <<1>> ELSE <<>>)] : dup \in BOOLEAN }

Inputs == SmallInputs \cup LongInputs

-----------------------------------------------------------------------------
(* The store and the statements *)

\* A node is [label, id, props]; a relationship is [type, src, dst] with src and
\* dst node indices.  The properties SET on Food nodes and on relationships are
\* read by no statement of the importer and are left out.

\* the nodes with this label and key
Matches(ns, label, id) == {k \in DOMAIN ns : ns[k].label = label /\ ns[k].id = id}

RECURSIVE SetToSeq(_)
SetToSeq(S) ==
    IF S = {} THEN <<>>
    ELSE LET m == CHOOSE x \in S : \A y \in S : x <= y
         IN  <<m>> \o SetToSeq(S \ {m})

Ok(ns, rs) == [ok |-> TRUE, nodes |-> ns, rels |-> rs]
Failed(ns, rs) == [ok |-> FALSE, nodes |-> ns, rels |-> rs]

\* the statements of create_constraints_and_indexes, in order
SchemaStmts ==
    << [name |-> "food_fdc_id", unique |-> TRUE, label |-> "Food"],
       [name |-> "nutrient_id", unique |-> TRUE, label |-> "Nutrient"],
       [name |-> "category_id", unique |-> TRUE, label |-> "FoodCategory"],
       [name |-> "food_description", unique |-> FALSE, label |-> "Food"],
       [name |-> "nutrient_name", unique |-> FALSE, label |-> "Nutrient"] >>

HasDuplicates(ns, label) ==
    \E a, b \in DOMAIN ns :
        a # b /\ ns[a].label = label /\ ns[b].label = label /\ ns[a].id = ns[b].id

\* CREATE CONSTRAINT / INDEX ... IF NOT EXISTS
SchemaStmt(cs, ns, s) ==
    IF s.name \in cs THEN [ok |-> TRUE, constraints |-> cs]
    ELSE IF s.unique /\ HasDuplicates(ns, s.label) THEN [ok |-> FALSE, constraints |-> cs]
    ELSE [ok |-> TRUE, constraints |-> cs \cup {s.name}]

\* UNWIND $nutrients AS nutrient MERGE (n:Nutrient {id}) ON CREATE SET ...
RECURSIVE NutrientRows(_, _, _)
NutrientRows(ns, batch, k) ==
    IF k > Len(batch) THEN ns
    ELSE LET n == batch[k]
         IN  IF Matches(ns, "Nutrient", n.id) # {}
             THEN NutrientRows(ns, batch, k + 1)
             ELSE NutrientRows(
                    Append(ns, [label |-> "Nutrient", id |-> n.id,
                                props |-> [name |-> n.name, number |-> n.number,
                                           unitName |-> n.unitName, rank |-> n.rank]]),
                    batch, k + 1)

\* MERGE (n:Nutrient) without the key matches any Nutrient node
NutrientStmtNoKey(ns, batch) ==
    IF batch = <<>> \/ \E k \in DOMAIN ns : ns[k].label = "Nutrient" THEN ns
    ELSE NutrientRows(ns, SubSeq(batch, 1, 1), 1)
NutrientStmt(ns, batch) == NutrientRows(ns, batch, 1)

\* CREATE (f:Food {fdcId}) under the uniqueness constraint food_fdc_id
FoodUniqueIgnored(cs, ns, fdcId) == FALSE
FoodUniqueViolated(cs, ns, fdcId) ==
    "food_fdc_id" \in cs /\ Matches(ns, "Food", fdcId) # {}

\* for every category row of one food: CREATE (f:Food) ; CREATE (f)-[:BELONGS_TO]->(fc)
RECURSIVE FoodCreate(_, _, _, _, _)
FoodCreate(st, cs, food, fcs, k) ==
    IF ~st.ok \/ k > Len(fcs) THEN st
    ELSE IF FoodUniqueViolated(cs, st.nodes, food.fdcId)
         THEN Failed(st.nodes, st.rels)
         ELSE LET ns == Append(st.nodes, [label |-> "Food", id |-> food.fdcId,
                                          props |-> <<>>])
              IN  FoodCreate(
                    Ok(ns, Append(st.rels, [type |-> "BELONGS_TO",
                                            src |-> Len(ns), dst |-> fcs[k]])),
                    cs, food, fcs, k + 1)

\* CREATE (fc:FoodCategory ...) in place of the MERGE
FoodRowCreatesCategory(st, cs, food) ==
    IF ~st.ok THEN st
    ELSE LET fc == food.foodCategory
             ns == Append(st.nodes, [label |-> "FoodCategory", id |-> fc.id,
                                     props |-> [code |-> fc.code,
                                                description |-> fc.description]])
         IN  FoodCreate(Ok(ns, st.rels), cs, food, <<Len(ns)>>, 1)

\* one row of UNWIND $foods AS food: MERGE (fc:FoodCategory {id}) ON CREATE SET ... CREATE ...
FoodRow(st, cs, food) ==
    IF ~st.ok THEN st
    ELSE LET fc == food.foodCategory
             found == Matches(st.nodes, "FoodCategory", fc.id)
             ns == IF found # {} THEN st.nodes
                   ELSE Append(st.nodes, [label |-> "FoodCategory", id |-> fc.id,
                                          props |-> [code |-> fc.code,
                                                     description |-> fc.description]])
             fcs == IF found # {} THEN SetToSeq(found) ELSE <<Len(ns)>>
         IN  FoodCreate(Ok(ns, st.rels), cs, food, fcs, 1)

\* the rows lo..hi of the batch in order, halved to keep the evaluation shallow;
\* the rows after a violation are not executed
RECURSIVE FoodRows(_, _, _, _, _)
FoodRows(st, cs, batch, lo, hi) ==
    IF lo > hi THEN st
    ELSE IF lo = hi THEN FoodRow(st, cs, batch[lo])
    ELSE LET mid == (lo + hi) \div 2
             half == FoodRows(st, cs, batch, lo, mid)
         IN  IF half.ok THEN FoodRows(half, cs, batch, mid + 1, hi) ELSE half

\* MERGE (f:Food {fdcId}) would pass over the foods the store already holds
FoodStmtSkipsExisting(ns, rs, cs, batch) ==
    LET new == SelectSeq(batch, LAMBDA f : Matches(ns, "Food", f.fdcId) = {})
        st == FoodRows(Ok(ns, rs), cs, new, 1, Len(new))
    IN  IF st.ok THEN st ELSE Failed(ns, rs)

\* the statement is one transaction: a violation undoes the whole batch
FoodStmt(ns, rs, cs, batch) ==
    LET st == FoodRows(Ok(ns, rs), cs, batch, 1, Len(batch))
    IN  IF st.ok THEN st ELSE Failed(ns, rs)

\* MATCH (f:Food {fdcId}) UNWIND $nutrients MATCH (n:Nutrient {id}) CREATE (f)-[:HAS_NUTRIENT]->(n)
RECURSIVE RelsForNutrients(_, _, _, _)
RelsForNutrients(rs, f, ms, k) ==
    IF k > Len(ms) THEN rs
    ELSE RelsForNutrients(
            Append(rs, [type |-> "HAS_NUTRIENT", src |-> f, dst |-> ms[k]]), f, ms, k + 1)

RECURSIVE RelsForEntries(_, _, _, _, _)
RelsForEntries(ns, rs, f, data, k) ==
    IF k > Len(data) THEN rs
    ELSE RelsForEntries(
            ns,
            RelsForNutrients(rs, f, SetToSeq(Matches(ns, "Nutrient", data[k].nutrient_id)), 1),
            f, data, k + 1)

RECURSIVE RelsForFoods(_, _, _, _, _)
RelsForFoods(ns, rs, fs, data, k) ==
    IF k > Len(fs) THEN rs
    ELSE RelsForFoods(ns, RelsForEntries(ns, rs, fs[k], data, 1), fs, data, k + 1)

\* MERGE (f)-[r:HAS_NUTRIENT]->(n) would make one relationship for a repeated nutrient
RelStmtMerge(ns, rs, fdcId, data) ==
    LET keep == SetToSeq({k \in DOMAIN data :
                    \A j \in 1..(k - 1) : data[j].nutrient_id # data[k].nutrient_id})
        once == [p \in DOMAIN keep |-> data[keep[p]]]
    IN  Ok(ns, RelsForFoods(ns, rs, SetToSeq(Matches(ns, "Food", fdcId)), once, 1))
RelStmt(ns, rs, fdcId, data) ==
    Ok(ns, RelsForFoods(ns, rs, SetToSeq(Matches(ns, "Food", fdcId)), data, 1))

\* the five count queries of verify_import, in order
CountQueries == <<"Food", "Nutrient", "FoodCategory", "HAS_NUTRIENT", "BELONGS_TO">>

CountQuery(ns, rs, q) ==
    IF q \in {"HAS_NUTRIENT", "BELONGS_TO"}
    THEN Cardinality({k \in DOMAIN rs : rs[k].type = q})
    ELSE Cardinality({k \in DOMAIN ns : ns[k].label = q})

-----------------------------------------------------------------------------
(* The importer's own computations *)

\* list[lo:hi]
SliceInclusive(list, lo, hi) == SubSeq(list, lo + 1, Min(hi + 1, Len(list)))
Slice(list, lo, hi) == SubSeq(list, lo + 1, Min(hi, Len(list)))

\* nutrients[nutrient['id']] = nutrient : a dict keeps a key's place and takes the new value
\* nutrients.setdefault(nutrient['id'], nutrient) would keep the first value
DictPutKeepFirst(d, n) ==
    IF \E k \in DOMAIN d : d[k].id = n.id THEN d ELSE Append(d, n)
DictPut(d, n) ==
    IF \E k \in DOMAIN d : d[k].id = n.id
    THEN [k \in DOMAIN d |-> IF d[k].id = n.id THEN n ELSE d[k]]
    ELSE Append(d, n)

RECURSIVE ScanEntries(_, _, _)
ScanEntries(d, fns, k) ==
    IF k > Len(fns) THEN d
    ELSE ScanEntries(DictPut(d, fns[k].nutrient), fns, k + 1)

\* the foodNutrients entries of the foods lo..hi in the order the two loops visit them
RECURSIVE AllEntries(_, _, _)
AllEntries(fs, lo, hi) ==
    IF lo > hi THEN <<>>
    ELSE IF lo = hi THEN fs[lo].foodNutrients
    ELSE LET mid == (lo + hi) \div 2
         IN  AllEntries(fs, lo, mid) \o AllEntries(fs, mid + 1, hi)

\* list(nutrients.values()) after the collecting loops of create_nutrients
CollectNutrients(fs) == ScanEntries(<<>>, AllEntries(fs, 1, Len(fs)), 1)

\* nutrients_data of create_nutrient_relationships for one food
NutrientsData(food) ==
    [k \in DOMAIN food.foodNutrients |-> [nutrient_id |-> food.foodNutrients[k].nutrient.id]]


-----------------------------------------------------------------------------
(* The process: main() and run_import() *)

DbPhases == {"constraints", "nutrients", "foods", "rels", "verify"}

FoodIdsIn(ns) == {ns[k].id : k \in {j \in DOMAIN ns : ns[j].label = "Food"}}

CountRels(rs, type) == Cardinality({k \in DOMAIN rs : rs[k].type = type})

\* what a process finds in the store
Snapshot(ns, rs) ==
    [foodIds |-> FoodIdsIn(ns), nNodes |-> Len(ns), nRels |-> Len(rs),
     nBelongs |-> CountRels(rs, "BELONGS_TO")]

NoBatchRun == blist = <<>> /\ bsize = 0 /\ bi = 0 /\ batches = <<>>

ProcessStart ==
    /\ pc = "prompt"
    /\ i = 0
    /\ nutrient_list = <<>>
    /\ response = <<>>
    /\ driver = "none"
    /\ error = "none"
    /\ stmts = 0
    /\ console = <<>>
    /\ counts = <<>>
    /\ failedAt = "none"

Init ==
    /\ foods \in Inputs
    /\ nodes = <<>>
    /\ rels = <<>>
    /\ constraints = {}
    /\ ProcessStart
    /\ start = Snapshot(<<>>, <<>>)
    /\ prevFailedAt = "none"
    /\ NoBatchRun

\* the statement the current phase is about to issue, if any
Pending ==
    CASE pc = "constraints" -> i < Len(SchemaStmts)
      [] pc = "nutrients"   -> i < Len(nutrient_list)
      [] pc = "foods"       -> i < Len(foods)
      [] pc = "rels"        -> i < Len(foods)
      [] pc = "verify"      -> i < Len(CountQueries)
      [] OTHER              -> FALSE

\* the order of the phases in run_import
PhaseAfterSwapped(p) ==
    CASE p = "load"        -> "constraints"
      [] p = "constraints" -> "nutrients"
      [] p = "nutrients"   -> "rels"
      [] p = "rels"        -> "foods"
      [] p = "foods"       -> "verify"
      [] p = "verify"      -> "done"
PhaseAfter(p) ==
    CASE p = "load"        -> "constraints"
      [] p = "constraints" -> "nutrients"
      [] p = "nutrients"   -> "foods"
      [] p = "foods"       -> "rels"
      [] p = "rels"        -> "verify"
      [] p = "verify"      -> "done"

\* except without the raise: the run would go on after the failed statement
RaiseSwallowed(kind) ==
    /\ error' = kind
    /\ failedAt' = pc
    /\ pc' = pc
    /\ console' = Append(console, "Error during import")

\* except Exception as e: print(...); raise
Raise(kind) ==
    /\ error' = kind
    /\ failedAt' = pc
    /\ pc' = "failed"
    /\ console' = Append(console, "Error during import")

\* input("Proceed with import? (yes/no): ") and the test on it
Prompt ==
    /\ pc = "prompt"
    /\ \E r \in Responses :
        /\ response' = r
        /\ IF Accepts(r)
           THEN /\ driver' = "open"
                /\ pc' = "load"
                /\ console' = console
           ELSE /\ driver' = driver
                /\ pc' = "cancelled"
                /\ console' = Append(console, "Import cancelled")
    /\ UNCHANGED <<foods, storeVars, i, nutrient_list, error, stmts, counts, failedAt,
                   start, prevFailedAt, bvars>>

\* load_json_data returns the file's foods
Load ==
    /\ pc = "load"
    /\ pc' = PhaseAfter(pc)
    /\ i' = 0
    /\ UNCHANGED <<foods, storeVars, nutrient_list, response, driver, error, stmts,
                   console, counts, failedAt, start, prevFailedAt, bvars>>

\* open() or json.load raises
LoadFails ==
    /\ pc = "load"
    /\ Raise("file")
    /\ UNCHANGED <<foods, storeVars, i, nutrient_list, response, driver, stmts, counts,
                   start, prevFailedAt, bvars>>

\* one session.run of create_constraints_and_indexes
ConstraintStmt ==
    /\ pc = "constraints" /\ Pending
    /\ LET r == SchemaStmt(constraints, nodes, SchemaStmts[i + 1])
       IN  /\ stmts' = stmts + 1
           /\ IF r.ok
              THEN /\ constraints' = r.constraints
                   /\ i' = i + 1
                   /\ UNCHANGED <<pc, error, failedAt, console>>
              ELSE /\ Raise("constraint")
                   /\ UNCHANGED <<constraints, i>>
    /\ UNCHANGED <<foods, nodes, rels, nutrient_list, response, driver, counts,
                   start, prevFailedAt, bvars>>

\* the end of a phase's with-block: run_import goes on to the next phase
PhaseDone ==
    /\ pc \in DbPhases /\ ~Pending
    /\ pc' = PhaseAfter(pc)
    /\ i' = 0
    /\ nutrient_list' = IF PhaseAfter(pc) = "nutrients" THEN CollectNutrients(foods)
                        ELSE nutrient_list
    /\ console' = IF PhaseAfter(pc) = "done" THEN Append(console, "Import completed")
                  ELSE console
    /\ UNCHANGED <<foods, storeVars, response, driver, error, stmts, counts, failedAt,
                   start, prevFailedAt, bvars>>

\* one session.run of create_nutrients: a batch of the collected nutrients
NutrientBatch ==
    /\ pc = "nutrients" /\ Pending
    /\ nodes' = NutrientStmt(nodes, Slice(nutrient_list, i, i + NUTRIENT_BATCH_SIZE))
    /\ i' = i + NUTRIENT_BATCH_SIZE
    /\ stmts' = stmts + 1
    /\ UNCHANGED <<foods, rels, constraints, pc, nutrient_list, response, driver, error,
                   console, counts, failedAt, start, prevFailedAt, bvars>>

\* one session.run of create_foods_and_categories: a batch of foods
FoodBatch ==
    /\ pc = "foods" /\ Pending
    /\ LET r == FoodStmt(nodes, rels, constraints, Slice(foods, i, i + FOOD_BATCH_SIZE))
       IN  /\ stmts' = stmts + 1
           /\ IF r.ok
              THEN /\ nodes' = r.nodes
                   /\ rels' = r.rels
                   /\ i' = i + FOOD_BATCH_SIZE
                   /\ UNCHANGED <<pc, error, failedAt, console>>
              ELSE /\ Raise("unique")
                   /\ UNCHANGED <<nodes, rels, i>>
    /\ UNCHANGED <<foods, constraints, nutrient_list, response, driver, counts,
                   start, prevFailedAt, bvars>>

\* one session.run of create_nutrient_relationships: the entries of one food
FoodRels ==
    /\ pc = "rels" /\ Pending
    /\ LET food == foods[i + 1]
           r == RelStmt(nodes, rels, food.fdcId, NutrientsData(food))
       IN  /\ nodes' = r.nodes
           /\ rels' = r.rels
    /\ i' = i + 1
    /\ stmts' = stmts + 1
    /\ UNCHANGED <<foods, constraints, pc, nutrient_list, response, driver, error,
                   console, counts, failedAt, start, prevFailedAt, bvars>>

\* one count query of verify_import
VerifyCount ==
    /\ pc = "verify" /\ Pending
    /\ counts' = Append(counts, CountQuery(nodes, rels, CountQueries[i + 1]))
    /\ i' = i + 1
    /\ stmts' = stmts + 1
    /\ UNCHANGED <<foods, storeVars, pc, nutrient_list, response, driver, error,
                   console, failedAt, start, prevFailedAt, bvars>>

\* the database or the connection fails the statement being issued
StmtFails ==
    /\ pc \in DbPhases /\ Pending
    /\ stmts' = stmts + 1
    /\ Raise("db")
    /\ UNCHANGED <<foods, storeVars, i, nutrient_list, response, driver, counts,
                   start, prevFailedAt, bvars>>

\* finally: importer.close(); the exception, if any, leaves main
Close ==
    /\ pc \in {"done", "failed"}
    /\ driver' = "closed"
    /\ pc' = "exit"
    /\ UNCHANGED <<foods, storeVars, i, nutrient_list, response, error, stmts, console,
                   counts, failedAt, start, prevFailedAt, bvars>>

\* the script is started again on the same file and the same store
Restart ==
    /\ pc \in {"exit", "cancelled"}
    /\ pc' = "prompt"
    /\ i' = 0
    /\ nutrient_list' = <<>>
    /\ response' = <<>>
    /\ driver' = "none"
    /\ error' = "none"
    /\ stmts' = 0
    /\ console' = <<>>
    /\ counts' = <<>>
    /\ failedAt' = "none"
    /\ start' = Snapshot(nodes, rels)
    /\ prevFailedAt' = IF pc = "exit" THEN failedAt ELSE prevFailedAt
    /\ UNCHANGED <<foods, storeVars, bvars>>

Next ==
    \/ Prompt
    \/ Load
    \/ LoadFails
    \/ ConstraintStmt
    \/ PhaseDone
    \/ NutrientBatch
    \/ FoodBatch
    \/ FoodRels
    \/ VerifyCount
    \/ StmtFails
    \/ Close
    \/ Restart

Spec == Init /\ [][Next]_vars


-----------------------------------------------------------------------------
(* The batching loop of create_nutrients and create_foods_and_categories on *)
(* its own:  for i in range(0, len(list), B): batch = list[i:i + B]; run     *)

BatchSizes == {FOOD_BATCH_SIZE, NUTRIENT_BATCH_SIZE}

BatchInit ==
    /\ \E B \in BatchSizes :
        /\ bsize = B
        /\ blist \in {[k \in 1..n |-> k] : n \in 0..(MaxBatches * B + 1)}
    /\ bi = 0
    /\ batches = <<>>
    /\ foods = <<>>
    /\ nodes = <<>>
    /\ rels = <<>>
    /\ constraints = {}
    /\ pc = "loop"
    /\ i = 0
    /\ nutrient_list = <<>>
    /\ response = <<>>
    /\ driver = "none"
    /\ error = "none"
    /\ stmts = 0
    /\ console = <<>>
    /\ counts = <<>>
    /\ failedAt = "none"
    /\ start = Snapshot(<<>>, <<>>)
    /\ prevFailedAt = "none"

\* one turn of the loop: the statement is given the batch
BatchStep ==
    /\ pc = "loop"
    /\ bi < Len(blist)
    /\ batches' = Append(batches, Slice(blist, bi, bi + bsize))
    /\ bi' = bi + bsize
    /\ UNCHANGED <<foods, storeVars, pc, i, nutrient_list, response, driver, error,
                   stmts, console, counts, failedAt, start, prevFailedAt, blist, bsize>>

BatchNext == BatchStep

SpecBatch == BatchInit /\ [][BatchNext]_vars


-----------------------------------------------------------------------------
(* What the properties speak of *)

Entries == AllEntries(foods, 1, Len(foods))
InputNutrientIds == {Entries[k].nutrient.id : k \in DOMAIN Entries}
InputFdcIds == {foods[f].fdcId : f \in DOMAIN foods}

NodesOf(label) == {k \in DOMAIN nodes : nodes[k].label = label}
RelsOf(type) == {k \in DOMAIN rels : rels[k].type = type}

\* the process found no node and no relationship in the store
StartedEmpty == start.nNodes = 0 /\ start.nRels = 0
\* the process found Food nodes of the input's identifiers in the store
StartedWithSameFoods == start.foodIds \cap InputFdcIds # {}
\* create_foods_and_categories has returned in this process
FoodsPhaseCompleted == pc \in {"rels", "verify", "done"}

\* the number of entries of food f that name nutrient id n
EntriesOf(f, n) ==
    Cardinality({e \in DOMAIN foods[f].foodNutrients :
                    foods[f].foodNutrients[e].nutrient.id = n})

\* the number of HAS_NUTRIENT relationships from Food fdcId to Nutrient n
Measurements(fdcId, n) ==
    Cardinality({k \in RelsOf("HAS_NUTRIENT") :
                    /\ rels[k].src \in Matches(nodes, "Food", fdcId)
                    /\ rels[k].dst \in Matches(nodes, "Nutrient", n)})

\* C1: after a run that completed on a store found empty, there are as many
\* Nutrient nodes as distinct nutrient ids in the foodNutrients entries.
C1_NutrientNodesAreDistinctIds ==
    (pc = "done" /\ StartedEmpty) =>
        Cardinality(NodesOf("Nutrient")) = Cardinality(InputNutrientIds)

C1_Witness ==
    /\ pc = "done" /\ StartedEmpty
    /\ Len(Entries) = 3
    /\ Cardinality(InputNutrientIds) = 2
    /\ Cardinality(NodesOf("Nutrient")) = 2

\* C2 as stated: after a run that completed on a store found empty, every
\* (food, nutrient) pair of the input has exactly one HAS_NUTRIENT relationship,
\* also when the food names the nutrient more than once, and no other pair has one.
C2_OnePerPair ==
    (pc = "done" /\ StartedEmpty) =>
        \A f \in DOMAIN foods : \A n \in NutIds :
            Measurements(foods[f].fdcId, n) = IF EntriesOf(f, n) > 0 THEN 1 ELSE 0

\* C2 amended: after a run that completed on a store found empty, the Food node
\* of every food has, to each Nutrient node, as many HAS_NUTRIENT relationships
\* as the food has foodNutrients entries naming that nutrient (one per entry).
C2_OnePerEntry ==
    (pc = "done" /\ StartedEmpty) =>
        /\ \A f \in DOMAIN foods : \A n \in NutIds :
              Measurements(foods[f].fdcId, n) = EntriesOf(f, n)
        /\ Cardinality(RelsOf("HAS_NUTRIENT")) = Len(Entries)

C2_Witness ==
    /\ pc = "done" /\ StartedEmpty
    /\ \E f \in DOMAIN foods : \E n \in NutIds : EntriesOf(f, n) = 2

\* C3: once create_foods_and_categories has returned, every Food node of the
\* input has exactly one outgoing BELONGS_TO, to the FoodCategory node of its
\* foodCategory.id; the call created as many BELONGS_TO as there are food
\* records; and every category id has a single FoodCategory node.
C3_OneCategoryPerFood ==
    FoodsPhaseCompleted =>
        /\ \A f \in DOMAIN foods :
              /\ Cardinality(Matches(nodes, "Food", foods[f].fdcId)) = 1
              /\ Cardinality(Matches(nodes, "FoodCategory", foods[f].foodCategory.id)) = 1
              /\ \A k \in Matches(nodes, "Food", foods[f].fdcId) :
                    LET out == {r \in RelsOf("BELONGS_TO") : rels[r].src = k}
                    IN  /\ Cardinality(out) = 1
                        /\ \A r \in out :
                              rels[r].dst \in
                                 Matches(nodes, "FoodCategory", foods[f].foodCategory.id)
        /\ CountRels(rels, "BELONGS_TO") - start.nBelongs = Len(foods)

C3_Witness ==
    /\ pc = "rels"
    /\ Len(foods) = 2
    /\ foods[1].foodCategory.id = foods[2].foodCategory.id
    /\ Cardinality(NodesOf("FoodCategory")) = 1

\* C4: a run on a store that already holds Food nodes of the input's identifiers
\* never completes a food batch and never reaches create_nutrient_relationships
\* or verify_import; unless the database fails a statement for its own reasons,
\* the run ends in the food-creation statement's uniqueness error; and the store
\* never holds two Food nodes of one fdcId.
C4_RerunFailsOnFoods ==
    /\ Cardinality(NodesOf("Food")) = Cardinality(FoodIdsIn(nodes))
    /\ StartedWithSameFoods =>
          /\ ~FoodsPhaseCompleted
          /\ pc = "foods" => i = 0
          /\ (error \notin {"none", "db", "file"}) =>
                (error = "unique" /\ failedAt = "foods")

C4_Witness ==
    /\ StartedWithSameFoods
    /\ start.foodIds = InputFdcIds
    /\ prevFailedAt = "none"
    /\ pc = "failed" /\ error = "unique"


\* C5: once a statement of run_import has failed, the run is over: the failed
\* statement left the store as the earlier statements had made it, the process
\* issues no further statement (no retry, no count query), nothing is undone,
\* and the exception leaves run_import and main.
C5_FailureAborts ==
    /\ [](error # "none" => pc \in {"failed", "exit"})
    /\ [][ /\ (error = "none" /\ error' # "none") =>
                (storeVars' = storeVars /\ stmts' \in {stmts, stmts + 1})
           /\ (error # "none" /\ pc' # "prompt") =>
                (storeVars' = storeVars /\ stmts' = stmts /\ error' = error) ]_vars

C5_Witness ==
    /\ pc = "exit" /\ error = "db" /\ failedAt = "rels"
    /\ stmts = Len(SchemaStmts) + 3
    /\ start.nNodes = 0
    /\ Len(nodes) = 3 /\ Len(rels) = 2
    /\ counts = <<>>

Ceil(n, B) == (n + B - 1) \div B

\* the phases of run_import that write to the database
WritePhases == {"constraints", "nutrients", "foods", "rels"}

YesAnswers ==
    {<<a>> : a \in {"y", "Y"}}
    \cup {<<a, b, c>> : a \in {"y", "Y"}, b \in {"e", "E"}, c \in {"s", "S"}}

\* C7: main opens the driver and issues statements only after an answer that is
\* "yes" or "y" in some letter case; on any other answer it prints the
\* cancellation and returns having touched nothing; the prompt comes before the
\* first statement.
C7_ConfirmationGuardsImport ==
    /\ [] /\ pc = "prompt" => (stmts = 0 /\ driver = "none")
          /\ pc = "cancelled" =>
                /\ response \notin YesAnswers
                /\ stmts = 0 /\ driver = "none"
                /\ console = <<"Import cancelled">>
                /\ Len(nodes) = start.nNodes /\ Len(rels) = start.nRels
          /\ pc \notin {"prompt", "cancelled"} => response \in YesAnswers
    /\ [][(pc = "prompt" /\ pc' = "cancelled") => storeVars' = storeVars]_vars

C7_Witness ==
    /\ response = <<"Y", "e", "S">>
    /\ stmts > 0 /\ driver = "open"

\* the descriptive fields of a nutrient record
Fields(n) == [name |-> n.name, number |-> n.number, unitName |-> n.unitName,
              rank |-> n.rank]

FirstOccurrence(id) ==
    Entries[CHOOSE k \in DOMAIN Entries :
                /\ Entries[k].nutrient.id = id
                /\ \A j \in 1..(k - 1) : Entries[j].nutrient.id # id].nutrient

LastOccurrence(id) ==
    Entries[CHOOSE k \in DOMAIN Entries :
                /\ Entries[k].nutrient.id = id
                /\ \A j \in (k + 1)..Len(Entries) : Entries[j].nutrient.id # id].nutrient

\* create_nutrients has returned in this process
NutrientsPhaseCompleted == pc \in {"foods", "rels", "verify", "done"}

\* C8 as stated: the list create_nutrients writes, and on a store found empty the
\* Nutrient node, carry the descriptive fields of the id's first occurrence.
C8_FirstOccurrenceKept ==
    (NutrientsPhaseCompleted /\ StartedEmpty) =>
        /\ \A k \in DOMAIN nutrient_list :
              nutrient_list[k] = FirstOccurrence(nutrient_list[k].id)
        /\ \A k \in NodesOf("Nutrient") :
              nodes[k].props = Fields(FirstOccurrence(nodes[k].id))

\* C8 amended: the deduplication keeps, for every nutrient id, the LAST
\* occurrence in scan order (at the place of the first), so on a store found
\* empty the Nutrient node carries the descriptive fields of the last occurrence.
C8_LastOccurrenceKept ==
    (NutrientsPhaseCompleted /\ StartedEmpty) =>
        /\ \A k \in DOMAIN nutrient_list :
              nutrient_list[k] = LastOccurrence(nutrient_list[k].id)
        /\ \A k \in NodesOf("Nutrient") :
              nodes[k].props = Fields(LastOccurrence(nodes[k].id))
        /\ {nutrient_list[k].id : k \in DOMAIN nutrient_list} = InputNutrientIds

C8_Witness ==
    /\ pc = "done" /\ StartedEmpty
    /\ Len(foods) = 2
    /\ \E k \in NodesOf("Nutrient") :
          /\ FirstOccurrence(nodes[k].id) # LastOccurrence(nodes[k].id)
          /\ nodes[k].props = Fields(LastOccurrence(nodes[k].id))

\* C9: every HAS_NUTRIENT relationship joins a Food node and a Nutrient node of
\* the store; create_nutrient_relationships runs only when every food and every
\* nutrient of the input has its node; and its statements create no node.
C9_MeasurementsJoinExistingNodes ==
    /\ [] /\ \A k \in RelsOf("HAS_NUTRIENT") :
                /\ rels[k].src \in NodesOf("Food")
                /\ rels[k].dst \in NodesOf("Nutrient")
          /\ pc = "rels" =>
                /\ \A id \in InputFdcIds : Matches(nodes, "Food", id) # {}
                /\ \A id \in InputNutrientIds : Matches(nodes, "Nutrient", id) # {}
    /\ [][(pc = "rels" \/ pc' = "rels") => nodes' = nodes]_vars

C9_Witness ==
    /\ pc = "rels" /\ i = 2
    /\ Cardinality(RelsOf("HAS_NUTRIENT")) = 3

RECURSIVE Concat(_, _)
Concat(ss, k) == IF k = 0 THEN <<>> ELSE Concat(ss, k - 1) \o ss[k]

\* C10: the batches are consecutive slices of the list in list order, none is
\* empty, none has more than B records, together they are the part of the list
\* the loop has passed (every record once), and when the loop ends there are
\* ceil(n / B) of them.
C10_BatchesPartitionTheList ==
    /\ \A k \in DOMAIN batches :
          /\ Len(batches[k]) \in 1..bsize
          /\ \A j \in DOMAIN batches[k] : batches[k][j] = blist[(k - 1) * bsize + j]
    /\ Concat(batches, Len(batches)) = SubSeq(blist, 1, Min(bi, Len(blist)))
    /\ bi >= Len(blist) =>
          /\ Len(batches) = Ceil(Len(blist), bsize)
          /\ Len(batches) * bsize >= Len(blist)
          /\ (Len(batches) - 1) * bsize < Len(blist) \/ Len(blist) = 0
          /\ Len(blist) = 0 => batches = <<>>

C10_Witness ==
    /\ bsize = NUTRIENT_BATCH_SIZE
    /\ bi >= Len(blist)
    /\ Len(batches) = 3
    /\ Len(batches[3]) = 1

====
